---- MODULE Spec2Model ----
(***************************************************************************)
(* LuminaOS voice tutoring pipeline: the whiteboard canvas                 *)
(* (TutorWhiteboard) and the live voice session (SocraticChat).            *)
(*                                                                         *)
(* Lengths on the canvas are counted in fifths of a pixel, so that the     *)
(* line height fontSize * 1.4 is an integer: Px(n) is n pixels.            *)
(* Playback times are counted in whole ticks of the output audio clock.    *)
(***************************************************************************)
EXTENDS Integers, Sequences, FiniteSets, TLC

VARIABLES
    \* ---- TutorWhiteboard (src/unnamed/part_002) ----
    currentY,          \* currentYRef: next vertical write offset
    canvasHeight,      \* canvasHeightRef / canvas.height
    renderedHashes,    \* renderedHashesRef
    itemCount,         \* itemCountRef
    isExpanding,       \* isExpandingRef
    surface,           \* the paint events whose pixels are on the canvas now
    restores,          \* expandCanvas calls whose restoreImg has not loaded yet
    images,            \* renderImage calls suspended at an await
    paintLog,          \* history: every paint call made on the 2d context
    growLog,           \* history: every expandCanvas call that got past its canvas check
    restoreFailed,     \* history: some restoreImg.onerror has fired
    nCmds,             \* history: number of commands received
    lastOp,            \* history: the command received last
    \* ---- SocraticChat (src/unnamed/part_005) ----
    mounted,           \* the component is mounted
    isActive,          \* useState isActive
    isConnecting,      \* useState isConnecting
    isActiveRef,       \* isActiveRef.current
    sessionRef,        \* sessionRef.current: 0 is null, k the transport of session k
    streamRef,         \* streamRef.current: 0 is null, k the stream of session k
    scriptProcessorRef,\* scriptProcessorRef.current: 0 is null, k the node of session k
    outputCtx,         \* outputAudioCtxRef.current: 0 is null, k the context of session k
    nSessions,         \* startSession calls that passed the guard
    pc,                \* where each startSession call is suspended
    transport,         \* state of each session's live connection
    stream,            \* state of each session's microphone stream
    node,              \* state of each session's ScriptProcessorNode
    transcriptions,    \* useState transcriptions: the session history
    clock,             \* outputAudioCtxRef.current.currentTime
    nextStartTime,     \* nextStartTimeRef.current
    sources,           \* sourcesRef.current
    decoding,          \* onmessage calls suspended at await decodeAudioData
    summaryRequests,   \* history: summary requests made by compileResources
    sched,             \* history: chunks scheduled since the clock was last reset
    bumped,            \* history: Math.max moved nextStartTime up to the clock
    interruptAt,       \* history: clock value at the last interruption
    nChunks,           \* history: audio chunks received
    inputTranscript,   \* inputTranscriptRef.current, as a sequence of fragments
    outputTranscript,  \* outputTranscriptRef.current, as a sequence of fragments
    imageGenerated,    \* imageGeneratedRef.current
    showWhiteboard,    \* useState showWhiteboard
    analyses,          \* analyzeAndGenerateImage calls suspended at their await
    genLog,            \* history: image-generation requests issued
    turnLog,           \* history: the fragments received in each completed turn
    recvIn,            \* history: input fragments received in the current turn
    recvOut,           \* history: output fragments received in the current turn
    showSummary,       \* useState showSummary
    summaryLoading,    \* useState summaryLoading
    summary,           \* useState sessionTopics and sessionResources
    summarizing,       \* compileResources calls suspended at their await
    lastEv,            \* history: the handler that ran last
    \* parseWhiteboardCommands
    chunk,             \* the text passed to the parser, as a sequence of tokens
    commands,          \* the commands it returned
    \* LuminaChat and the lumina_sessions collection
    messages,          \* useState messages: their number
    isLoading,         \* useState isLoading
    chatCall,          \* sendMessage suspended at generateContent: the messages it closed over
    sessionIdRef,      \* sessionIdRef.current: 0 is null
    hasSynthesized,    \* hasSynthesizedRef.current
    synthCalls,        \* topic extraction requests in flight
    writes,            \* writes sent to the database and not yet acknowledged
    records,           \* the documents of lumina_sessions
    nExchanges,        \* history: messages sent
    lastAll,           \* history: allMessages of the last completed exchange
    \* AppContent
    selectedClassId,   \* useState selectedClassId: 0 is null
    classroomData,     \* useState classroomData: the classrooms it has an entry for
    subs,              \* the classrooms whose onSnapshot listeners are attached
    loads              \* loadClassroomData calls suspended at Promise.all

boardVars == <<currentY, canvasHeight, renderedHashes, itemCount, isExpanding,
               surface, restores, images, paintLog, growLog, restoreFailed, nCmds,
               lastOp>>

lifeVars == <<mounted, isActive, isConnecting, isActiveRef, sessionRef, streamRef,
              scriptProcessorRef, outputCtx, nSessions, pc, transport, stream, node,
              transcriptions, summaryRequests>>

audioVars == <<clock, nextStartTime, sources, decoding, sched, bumped, interruptAt,
               nChunks>>

turnVars == <<inputTranscript, outputTranscript, imageGenerated, showWhiteboard,
              analyses, genLog, turnLog, recvIn, recvOut>>

summaryVars == <<showSummary, summaryLoading, summary, summarizing>>

voiceVars == <<lifeVars, audioVars, turnVars, summaryVars, lastEv>>

parseVars == <<chunk, commands>>

chatVars == <<messages, isLoading, chatCall, sessionIdRef, hasSynthesized, synthCalls,
              writes, records, nExchanges, lastAll>>

classVars == <<selectedClassId, classroomData, subs, loads>>

appVars == <<chatVars, classVars>>

vars == <<boardVars, voiceVars, parseVars, appVars>>

(***************************************************************************)
(* Bounds of the model.                                                    *)
(***************************************************************************)
MaxCmds == 3
MaxImages == 2
MaxSessions == 2
MaxChunks == 3
MaxClock == 2
MaxTurns == 2
MaxFrags == 2
MaxLen == 5
MaxExchanges == 3
MaxClasses == 3

(***************************************************************************)
(* Numbers and strings.                                                    *)
(***************************************************************************)
Px(n) == n * 5

Undefined == 0 - 1

Min(a, b) == IF a < b THEN a ELSE b

Max(a, b) == IF a > b THEN a ELSE b

RECURSIVE Rep(_, _)
Rep(c, n) == IF n = 0 THEN << >> ELSE <<c>> \o Rep(c, n - 1)

\* String.prototype.trim: strips the white space at both ends.
RECURSIVE TrimStart(_)
TrimStart(s) == IF s # << >> /\ Head(s) = " " THEN TrimStart(Tail(s)) ELSE s

RECURSIVE TrimEnd(_)
TrimEnd(s) ==
    IF s # << >> /\ s[Len(s)] = " " THEN TrimEnd(SubSeq(s, 1, Len(s) - 1)) ELSE s

Trim(s) == TrimEnd(TrimStart(s))

\* String.prototype.toLowerCase on the letters the commands use.
LowerChar(c) ==
    CASE c = "A" -> "a"
      [] c = "B" -> "b"
      [] c = "F" -> "f"
      [] c = "M" -> "m"
      [] OTHER -> c

ToLowerCase(s) == [i \in 1..Len(s) |-> LowerChar(s[i])]

\* String.prototype.substring(0, n)
Substring(s, n) == SubSeq(s, 1, Min(n, Len(s)))

(***************************************************************************)
(* TutorWhiteboard: constants and helpers.                                 *)
(***************************************************************************)
CANVAS_WIDTH == Px(800)

MIN_CANVAS_HEIGHT == Px(800)

CONTENT_PADDING == Px(30)

InitialY == Px(80)

LeftMargin == Px(40)

DefaultFontSize == 24

HashLen == 30

DividerHeight == Px(50)

DefaultImgWidth == Min(550, 800 - 80)

TextHeightUnscaled(fontSize) == fontSize * 5

\* textHeight = fontSize * 1.4, in fifths of a pixel
TextHeight(fontSize) == fontSize * 7

FontSize(size) == IF size = Undefined \/ size = 0 THEN DefaultFontSize ELSE size

TextHashNoLower(text) == <<"text-">> \o Substring(Trim(text), HashLen)

\* hash = `text-${cmd.text.trim().toLowerCase().substring(0, 30)}`
TextHash(text) == <<"text-">> \o Substring(ToLowerCase(Trim(text)), HashLen)

\* The texts the model writes: two that differ in case, in the white space
\* around them and after the hashed prefix only, and a third one.
Texts ==
    { <<" ", "A">> \o Rep("a", HashLen - 1) \o <<"b", " ">>,
      Rep("a", HashLen) \o <<"c">>,
      <<"F", "=", "m", "a">> }

WriteSizes == {Undefined, 200}

GivenXY == {Undefined, Px(300)}

\* A decoded image: its natural width and height in pixels.
Imgs == { [w |-> 1100, h |-> 1100] }

ImgYs == {Undefined, Px(1200)}

\* The height field of an image command, in pixels.
ImgHeights == {Undefined, 1000}

\* The vertical position a draw or highlight command names.
DrawYs == {Px(200)}

YOf(n) == (CHOOSE p \in paintLog : p.n = n).y

NextPaint == Cardinality(paintLog) + 1

\* One paint call on the 2d context at vertical position y. Pixels below the
\* canvas height are clipped: the call leaves nothing on the surface.
PaintRec(k, x, y, text) ==
    [n |-> NextPaint, k |-> k, x |-> x, y |-> y, text |-> text,
     h |-> canvasHeight, growing |-> restores # {}]

Visible(y, height) == y < height

Painted(rec) == IF Visible(rec.y, canvasHeight) THEN surface \cup {rec.n} ELSE surface

\* getNextY: the cursor after reserving heightNeeded; the value returned is
\* the cursor before the call.
GetNextY(heightNeeded) == currentY + heightNeeded + CONTENT_PADDING

InitBoard ==
    /\ currentY = InitialY
    /\ canvasHeight = MIN_CANVAS_HEIGHT
    /\ renderedHashes = {}
    /\ itemCount = 0
    /\ isExpanding = FALSE
    /\ surface = {}
    /\ restores = {}
    /\ images = {}
    /\ paintLog = {}
    /\ growLog = {}
    /\ restoreFailed = FALSE
    /\ nCmds = 0
    /\ lastOp = [op |-> "init"]

(***************************************************************************)
(* executeCommand, one action per case of the switch.                      *)
(***************************************************************************)
\* case 'write': x and y of the command are never read.
ExecWrite(text, size, x, y) ==
    /\ nCmds < MaxCmds
    /\ LET fontSize == FontSize(size)
           textHeight == TextHeight(fontSize)
           atY == currentY
           hash == TextHash(text)
           rec == PaintRec("text", LeftMargin, atY, text)
       IN  /\ currentY' = GetNextY(textHeight)
           /\ IF hash \in renderedHashes
              THEN UNCHANGED <<renderedHashes, paintLog, surface, itemCount>>
              ELSE /\ renderedHashes' = renderedHashes \cup {hash}
                   /\ paintLog' = paintLog \cup {rec}
                   /\ surface' = Painted(rec)
                   /\ itemCount' = itemCount + 1
    /\ nCmds' = nCmds + 1
    /\ lastOp' = [op |-> "write", text |-> text, size |-> size]
    /\ UNCHANGED <<canvasHeight, isExpanding, restores, images, growLog, restoreFailed>>
    /\ UNCHANGED <<voiceVars, parseVars, appVars>>

\* case 'draw': drawShape strokes the shape when its geometry fields are
\* there; the item counter goes up either way.
ExecDraw(hasGeometry, y) ==
    /\ nCmds < MaxCmds
    /\ LET rec == PaintRec("draw", Undefined, y, << >>)
       IN  IF hasGeometry
           THEN paintLog' = paintLog \cup {rec} /\ surface' = Painted(rec)
           ELSE UNCHANGED <<paintLog, surface>>
    /\ itemCount' = itemCount + 1
    /\ nCmds' = nCmds + 1
    /\ lastOp' = [op |-> "draw"]
    /\ UNCHANGED <<currentY, canvasHeight, renderedHashes, isExpanding, restores,
                   images, growLog, restoreFailed>>
    /\ UNCHANGED <<voiceVars, parseVars, appVars>>

\* case 'highlight'
ExecHighlight(y) ==
    /\ nCmds < MaxCmds
    /\ LET rec == PaintRec("highlight", Undefined, y, << >>)
       IN  paintLog' = paintLog \cup {rec} /\ surface' = Painted(rec)
    /\ nCmds' = nCmds + 1
    /\ lastOp' = [op |-> "highlight"]
    /\ UNCHANGED <<currentY, canvasHeight, renderedHashes, itemCount, isExpanding,
                   restores, images, growLog, restoreFailed>>
    /\ UNCHANGED <<voiceVars, parseVars, appVars>>

\* case 'clear': a dashed divider at the cursor, nothing is erased.
ExecClear ==
    /\ nCmds < MaxCmds
    /\ LET dividerY == currentY
           rec == PaintRec("divider", LeftMargin, dividerY, << >>)
       IN  /\ currentY' = GetNextY(DividerHeight)
           /\ paintLog' = paintLog \cup {rec}
           /\ surface' = Painted(rec)
    /\ nCmds' = nCmds + 1
    /\ lastOp' = [op |-> "clear"]
    /\ UNCHANGED <<canvasHeight, renderedHashes, itemCount, isExpanding, restores,
                   images, growLog, restoreFailed>>
    /\ UNCHANGED <<voiceVars, parseVars, appVars>>

(***************************************************************************)
(* renderImage and expandCanvas.                                           *)
(***************************************************************************)
\* case 'image' of executeCommand, and the direct call by
\* generateCanvasImage: renderImage runs up to its first await, the decode
\* of the image.
RenderImage(hasData, y, height) ==
    /\ nCmds < MaxCmds
    /\ Cardinality(images) < MaxImages
    /\ IF hasData
       THEN images' = images \cup
                {[id |-> nCmds + 1, st |-> "loading", y |-> y, height |-> height,
                  imgY |-> Undefined, imgHeight |-> Undefined, r |-> Undefined]}
       ELSE UNCHANGED images
    /\ nCmds' = nCmds + 1
    /\ lastOp' = [op |-> "image"]
    /\ UNCHANGED <<currentY, canvasHeight, renderedHashes, itemCount, isExpanding,
                   surface, restores, paintLog, growLog, restoreFailed>>
    /\ UNCHANGED <<voiceVars, parseVars, appVars>>

\* A renderImage that would reserve the image's place before the decode.
ImageFailedAfterGetNextY(i) ==
    /\ i \in images /\ i.st = "loading"
    /\ images' = images \ {i}
    /\ currentY' = GetNextY(Px(40))
    /\ UNCHANGED <<canvasHeight, renderedHashes, itemCount, isExpanding,
                   surface, restores, paintLog, growLog, restoreFailed, nCmds, lastOp>>
    /\ UNCHANGED <<voiceVars, parseVars, appVars>>

\* imgEl.onerror: the promise rejects, the catch yields null, renderImage
\* returns.
ImageFailed(i) ==
    /\ i \in images /\ i.st = "loading"
    /\ images' = images \ {i}
    /\ UNCHANGED <<currentY, canvasHeight, renderedHashes, itemCount, isExpanding,
                   surface, restores, paintLog, growLog, restoreFailed, nCmds, lastOp>>
    /\ UNCHANGED <<voiceVars, parseVars, appVars>>

\* imgHeight = height || img.height * (imgWidth / img.width), in pixels
ImgHeight(height, img) ==
    IF height # Undefined /\ height # 0
    THEN height
    ELSE (img.h * DefaultImgWidth) \div img.w

\* neededHeight = imgY + imgHeight + 100
NeededHeight(imgY, imgHeight) == imgY + imgHeight + Px(100)

GrowTargetExact(neededHeight) == neededHeight

\* The height renderImage asks expandCanvas for.
GrowTarget(neededHeight) == neededHeight + Px(300)

ExpandAlways(newHeight) == TRUE

\* expandCanvas(newHeight) does nothing unless newHeight > canvasHeightRef.
ExpandNeeded(newHeight) == newHeight > canvasHeight

\* ctx.drawImage(restoreImg, 0, 0): the snapshot is an opaque picture of the
\* old canvas, background included; it replaces what lies in rows 0..h-1.
Restored(r) == r.snap \cup {n \in surface : YOf(n) >= r.h}

NextRestore == Cardinality(growLog) + 1

\* drawImageWithBorder, then itemCountRef.current++
DrawImage(i, rec) ==
    /\ paintLog' = paintLog \cup {rec}
    /\ itemCount' = itemCount + 1
    /\ images' = images \ {i}

\* imgEl.onload: renderImage goes on from the decode to the draw or, when the
\* canvas is too small, to the await of expandCanvas, whose executor has by
\* then taken the snapshot, resized the canvas and repainted the background.
ImageLoaded(i, img) ==
    /\ i \in images /\ i.st = "loading"
    /\ LET imgHeight == Px(ImgHeight(i.height, img))
           imgY == IF i.y # Undefined THEN i.y ELSE currentY
           neededHeight == NeededHeight(imgY, imgHeight)
           newHeight == GrowTarget(neededHeight)
       IN  /\ currentY' = IF i.y # Undefined THEN currentY
                          ELSE GetNextY(imgHeight + Px(40))
           /\ IF neededHeight > canvasHeight /\ ExpandNeeded(newHeight)
              THEN /\ isExpanding' = TRUE
                   /\ canvasHeight' = newHeight
                   /\ restores' = restores \cup
                         {[id |-> NextRestore, snap |-> surface, h |-> canvasHeight]}
                   /\ growLog' = growLog \cup
                         {[id |-> NextRestore, from |-> canvasHeight, to |-> newHeight,
                           need |-> neededHeight, snap |-> surface]}
                   /\ surface' = {}
                   /\ images' = (images \ {i}) \cup
                         {[i EXCEPT !.st = "expanding", !.imgY = imgY,
                                    !.imgHeight = imgHeight, !.r = NextRestore]}
                   /\ UNCHANGED <<paintLog, itemCount>>
              ELSE /\ DrawImage(i, PaintRec("image", Undefined, imgY, << >>))
                   /\ surface' = Painted(PaintRec("image", Undefined, imgY, << >>))
                   /\ UNCHANGED <<isExpanding, canvasHeight, restores, growLog>>
    /\ UNCHANGED <<renderedHashes, restoreFailed, nCmds, lastOp>>
    /\ UNCHANGED <<voiceVars, parseVars, appVars>>

\* restoreImg.onload: the snapshot is drawn back, the promise resolves and the
\* renderImage that awaited it draws its image.
RestoreLoaded(r) ==
    /\ r \in restores
    /\ LET i == CHOOSE j \in images : j.st = "expanding" /\ j.r = r.id
           rec == [PaintRec("image", Undefined, i.imgY, << >>)
                       EXCEPT !.growing = (restores \ {r}) # {}]
       IN  /\ DrawImage(i, rec)
           /\ surface' = IF Visible(i.imgY, canvasHeight)
                         THEN Restored(r) \cup {rec.n} ELSE Restored(r)
    /\ restores' = restores \ {r}
    /\ isExpanding' = FALSE
    /\ UNCHANGED <<currentY, canvasHeight, renderedHashes, growLog, restoreFailed, nCmds,
                   lastOp>>
    /\ UNCHANGED <<voiceVars, parseVars, appVars>>

\* restoreImg.onerror: nothing is drawn back, the promise resolves all the same.
RestoreError(r) ==
    /\ r \in restores
    /\ LET i == CHOOSE j \in images : j.st = "expanding" /\ j.r = r.id
           rec == [PaintRec("image", Undefined, i.imgY, << >>)
                       EXCEPT !.growing = (restores \ {r}) # {}]
       IN  /\ DrawImage(i, rec)
           /\ surface' = IF Visible(i.imgY, canvasHeight)
                         THEN surface \cup {rec.n} ELSE surface
    /\ restores' = restores \ {r}
    /\ isExpanding' = FALSE
    /\ restoreFailed' = TRUE
    /\ UNCHANGED <<currentY, canvasHeight, renderedHashes, growLog, nCmds, lastOp>>
    /\ UNCHANGED <<voiceVars, parseVars, appVars>>

\* The heights expandCanvas is called with when it is exercised on its own.
GrowHeights == {Px(600), Px(800), Px(1000), Px(1400)}

\* expandCanvas(newHeight) called on its own, up to the load of restoreImg:
\* nothing happens unless newHeight exceeds canvasHeightRef; otherwise the
\* snapshot is taken, the canvas resized and the background repainted.
ExpandCanvas(newHeight) ==
    /\ nCmds < MaxCmds
    /\ growLog' = growLog \cup
           {[id |-> NextRestore, from |-> canvasHeight, to |-> newHeight,
             need |-> newHeight, snap |-> surface]}
    /\ IF ExpandNeeded(newHeight)
       THEN /\ isExpanding' = TRUE
            /\ canvasHeight' = newHeight
            /\ restores' = restores \cup
                   {[id |-> NextRestore, snap |-> surface, h |-> canvasHeight]}
            /\ surface' = {}
       ELSE UNCHANGED <<isExpanding, canvasHeight, restores, surface>>
    /\ nCmds' = nCmds + 1
    /\ lastOp' = [op |-> "grow"]
    /\ UNCHANGED <<currentY, renderedHashes, itemCount, images, paintLog, restoreFailed>>
    /\ UNCHANGED <<voiceVars, parseVars, appVars>>

\* restoreImg.onload of an expandCanvas called on its own.
GrowRestored(r) ==
    /\ r \in restores
    /\ \A j \in images : j.r # r.id
    /\ surface' = Restored(r)
    /\ restores' = restores \ {r}
    /\ isExpanding' = FALSE
    /\ UNCHANGED <<currentY, canvasHeight, renderedHashes, itemCount, images, paintLog,
                   growLog, restoreFailed, nCmds, lastOp>>
    /\ UNCHANGED <<voiceVars, parseVars, appVars>>

\* restoreImg.onerror of an expandCanvas called on its own.
GrowRestoreFailed(r) ==
    /\ r \in restores
    /\ \A j \in images : j.r # r.id
    /\ restores' = restores \ {r}
    /\ isExpanding' = FALSE
    /\ restoreFailed' = TRUE
    /\ UNCHANGED <<currentY, canvasHeight, renderedHashes, itemCount, images, paintLog,
                   growLog, surface, nCmds, lastOp>>
    /\ UNCHANGED <<voiceVars, parseVars, appVars>>

\* expandCanvas exercised on its own on a canvas that Write commands fill.
NextGrow ==
    \/ \E text \in Texts, size \in WriteSizes, xy \in GivenXY :
             ExecWrite(text, size, xy, xy)
    \/ \E newHeight \in GrowHeights : ExpandCanvas(newHeight)
    \/ \E r \in restores : GrowRestored(r)
    \/ \E r \in restores : GrowRestoreFailed(r)

NextBoard ==
    \/ \E text \in Texts, size \in WriteSizes, xy \in GivenXY :
             ExecWrite(text, size, xy, xy)
    \/ \E g \in BOOLEAN, y \in DrawYs : ExecDraw(g, y)
    \/ \E y \in DrawYs : ExecHighlight(y)
    \/ ExecClear
    \/ \E d \in BOOLEAN, y \in ImgYs, height \in ImgHeights : RenderImage(d, y, height)
    \/ \E i \in images : ImageFailed(i)
    \/ \E i \in images, img \in Imgs : ImageLoaded(i, img)
    \/ \E r \in restores : RestoreLoaded(r)
    \/ \E r \in restores : RestoreError(r)

(***************************************************************************)
(* parseWhiteboardCommands. A text is a sequence of tokens: the opening    *)
(* "[BOARD:{" and the closing "}]" of a directive, what may stand between  *)
(* the braces, and plain words.                                            *)
(***************************************************************************)
Open == "[BOARD:{"

Close == "}]"

\* Payloads that JSON.parse accepts and whose object has an action.
ActionBodies == {"action:write,text:F=ma", "action:draw,shape:line,from:[0,200],to:[9,200]",
                 "action:highlight,x:0,y:200,width:9,height:9", "action:clear",
                 "action:image,imageData:x"}

\* A payload JSON.parse accepts, without an action, and one it rejects.
NoActionBody == "text:F=ma"

BadBody == "action:"

Plain == "Good."

\* JSON.parse(match[1]) returns: match[1] is the text from the brace of
\* Open to the brace of Close.
JsonParses(payload) ==
    \/ payload = << >>
    \/ Len(payload) = 1 /\ payload[1] \in ActionBodies \cup {NoActionBody}

\* cmd.action is truthy.
HasAction(payload) == payload # << >> /\ payload[1] \in ActionBodies

\* The first index from `from` on where the text has the token, or 0.
IndexOf(text, tok, from) ==
    IF \E i \in from..Len(text) : text[i] = tok
    THEN CHOOSE i \in from..Len(text) :
             text[i] = tok /\ \A j \in from..(i - 1) : text[j] # tok
    ELSE 0

\* The while loop of regex.exec from lastIndex on: the pattern
\* /\[BOARD:(\{.*?\})\]/g matches at the first Open that has a Close after
\* it, up to the first such Close.
RECURSIVE ExecFrom(_, _)
ExecFrom(text, lastIndex) ==
    LET o == IndexOf(text, Open, lastIndex)
        c == IF o = 0 THEN 0 ELSE IndexOf(text, Close, o + 1)
    IN  IF o = 0 \/ c = 0
        THEN << >>
        ELSE LET payload == SubSeq(text, o + 1, c - 1)
             IN  (IF JsonParses(payload) /\ HasAction(payload)
                  THEN <<payload[1]>> ELSE << >>) \o ExecFrom(text, c + 1)

parseWhiteboardCommands(text) == ExecFrom(text, 1)

ParseTokens == {Open, Close, "action:write,text:F=ma", "action:clear", NoActionBody,
                BadBody, Plain}

RECURSIVE SeqsUpTo(_, _)
SeqsUpTo(S, n) ==
    IF n = 0 THEN {<< >>}
    ELSE SeqsUpTo(S, n - 1) \cup
         {Append(q, t) : q \in {r \in SeqsUpTo(S, n - 1) : Len(r) = n - 1}, t \in S}

Chunks == SeqsUpTo(ParseTokens, MaxLen)

InitParse ==
    /\ chunk = << >>
    /\ commands = << >>

\* One call of the parser, on a text that has not been parsed yet.
ParseChunk(text) ==
    /\ chunk = << >>
    /\ chunk' = text
    /\ commands' = parseWhiteboardCommands(text)
    /\ UNCHANGED <<boardVars, voiceVars, appVars>>

NextParse == \E text \in Chunks : ParseChunk(text)

\* The object JSON.parse makes of a payload, as executeCommand reads it.
CmdOf(body) ==
    [action |-> CASE body = "action:write,text:F=ma" -> "write"
                  [] body = "action:draw,shape:line,from:[0,200],to:[9,200]" -> "draw"
                  [] body = "action:highlight,x:0,y:200,width:9,height:9" -> "highlight"
                  [] body = "action:clear" -> "clear"
                  [] OTHER -> "image",
     text |-> <<"F", "=", "m", "a">>,
     size |-> Undefined,
     y |-> IF body \in {"action:draw,shape:line,from:[0,200],to:[9,200]",
                        "action:highlight,x:0,y:200,width:9,height:9"}
           THEN Px(200) ELSE Undefined,
     height |-> Undefined]

\* executeCommand: the switch on cmd.action.
ExecuteCommand(cmd) ==
    \/ cmd.action = "write" /\ ExecWrite(cmd.text, cmd.size, cmd.y, cmd.y)
    \/ cmd.action = "draw" /\ ExecDraw(TRUE, cmd.y)
    \/ cmd.action = "highlight" /\ ExecHighlight(cmd.y)
    \/ cmd.action = "clear" /\ ExecClear
    \/ cmd.action = "image" /\ RenderImage(TRUE, cmd.y, cmd.height)

\* The texts onmessage passes on: one directive of each kind, alone, after
\* a plain word and before one, and a text without a directive.
FeedChunks ==
    {<<Open, b, Close>> : b \in ActionBodies}
        \cup {<<Plain, Open, b, Close>> : b \in ActionBodies}
        \cup {<<Open, b, Close, Plain>> : b \in ActionBodies}
        \cup {<<Plain>>}

\* onmessage for a message with a text part: the commands the parser finds
\* in it are executed on the whiteboard.
FeedChunk(text) ==
    LET cmds == parseWhiteboardCommands(text)
    IN  IF cmds = << >>
        THEN UNCHANGED vars
        ELSE Len(cmds) = 1 /\ ExecuteCommand(CmdOf(cmds[1]))

NextFeed ==
    \/ \E text \in FeedChunks : FeedChunk(text)
    \/ \E i \in images : ImageFailed(i)
    \/ \E i \in images, img \in Imgs : ImageLoaded(i, img)
    \/ \E r \in restores : RestoreLoaded(r)
    \/ \E r \in restores : RestoreError(r)

(***************************************************************************)
(* SocraticChat: the live voice session.                                   *)
(*                                                                         *)
(* Every startSession call that passes its guard makes a new microphone    *)
(* stream, a new live connection (transport) and, once that opens, a new   *)
(* ScriptProcessorNode; session k owns the ones numbered k. The callbacks  *)
(* of a connection stay registered after the session that made it is over. *)
(***************************************************************************)
Sessions == 1..MaxSessions

\* Durations of the audio chunks the endpoint sends, in clock ticks.
Durations == {1, 2}

\* The sub-resources whose close call may raise an exception.
SubResources == {"node", "transport", "track"}

\* A state update of a component that is no longer mounted is dropped.
SetState(old, new) == IF mounted THEN new ELSE old

InitVoice ==
    /\ mounted = TRUE
    /\ isActive = FALSE
    /\ isConnecting = FALSE
    /\ isActiveRef = FALSE
    /\ sessionRef = 0
    /\ streamRef = 0
    /\ scriptProcessorRef = 0
    /\ outputCtx = 0
    /\ nSessions = 0
    /\ pc = [k \in Sessions |-> "none"]
    /\ transport = [k \in Sessions |-> "none"]
    /\ stream = [k \in Sessions |-> "none"]
    /\ node = [k \in Sessions |-> "none"]
    /\ transcriptions = << >>
    /\ clock = 0
    /\ nextStartTime = 0
    /\ sources = {}
    /\ decoding = << >>
    /\ summaryRequests = 0
    /\ sched = << >>
    /\ bumped = FALSE
    /\ interruptAt = Undefined
    /\ nChunks = 0
    /\ inputTranscript = << >>
    /\ outputTranscript = << >>
    /\ imageGenerated = FALSE
    /\ showWhiteboard = FALSE
    /\ analyses = {}
    /\ genLog = {}
    /\ turnLog = << >>
    /\ recvIn = << >>
    /\ recvOut = << >>
    /\ showSummary = FALSE
    /\ summaryLoading = FALSE
    /\ summary = [kind |-> "empty", of |-> 0]
    /\ summarizing = {}
    /\ lastEv = [ev |-> "init", k |-> 0, ok |-> TRUE]

\* startSession up to `await getUserMedia`: the guard, setIsConnecting(true),
\* setShowWhiteboard(true), setShowSummary(false), the two new AudioContexts
\* (the clock of a new context starts at 0). fromSummary: it is called by
\* onNewSession of the summary panel, which clears the history first.
StartSession(fromSummary) ==
    /\ mounted
    /\ fromSummary => showSummary
    /\ ~(isConnecting \/ isActive)
    /\ nSessions < MaxSessions
    /\ nSessions' = nSessions + 1
    /\ isConnecting' = TRUE
    /\ outputCtx' = nSessions + 1
    /\ clock' = 0
    /\ sched' = << >>
    /\ interruptAt' = Undefined
    /\ pc' = [pc EXCEPT ![nSessions + 1] = "mic"]
    /\ lastEv' = [ev |-> "start", k |-> nSessions + 1, ok |-> TRUE]
    /\ UNCHANGED <<mounted, isActive, isActiveRef, sessionRef, streamRef,
                   scriptProcessorRef, transport, stream, node, summaryRequests,
                   nextStartTime, sources, decoding, bumped, nChunks>>
    /\ transcriptions' = IF fromSummary THEN << >> ELSE transcriptions
    /\ showWhiteboard' = TRUE
    /\ showSummary' = FALSE
    /\ UNCHANGED <<inputTranscript, outputTranscript, imageGenerated, analyses, genLog,
                   turnLog, recvIn, recvOut>>
    /\ UNCHANGED <<summaryLoading, summary, summarizing>>
    /\ UNCHANGED <<appVars, parseVars, boardVars>>

\* getUserMedia resolves: streamRef is set and ai.live.connect is called;
\* startSession is suspended at `await sessionPromise`.
MicGranted(k) ==
    /\ pc[k] = "mic"
    /\ stream' = [stream EXCEPT ![k] = "live"]
    /\ streamRef' = k
    /\ transport' = [transport EXCEPT ![k] = "connecting"]
    /\ pc' = [pc EXCEPT ![k] = "connect"]
    /\ lastEv' = [ev |-> "micGranted", k |-> k, ok |-> TRUE]
    /\ UNCHANGED <<mounted, isActive, isConnecting, isActiveRef, sessionRef,
                   scriptProcessorRef, outputCtx, nSessions, node, transcriptions,
                   summaryRequests, audioVars>>
    /\ UNCHANGED <<appVars, parseVars, boardVars, turnVars, summaryVars>>

\* getUserMedia rejects: the catch block.
MicDenied(k) ==
    /\ pc[k] = "mic"
    /\ pc' = [pc EXCEPT ![k] = "done"]
    /\ isConnecting' = SetState(isConnecting, FALSE)
    /\ lastEv' = [ev |-> "micDenied", k |-> k, ok |-> FALSE]
    /\ UNCHANGED <<mounted, isActive, isActiveRef, sessionRef, streamRef,
                   scriptProcessorRef, outputCtx, nSessions, transport, stream, node,
                   transcriptions, summaryRequests, audioVars>>
    /\ UNCHANGED <<appVars, parseVars, boardVars, turnVars, summaryVars>>

\* sessionPromise rejects: the catch block.
ConnectRejected(k) ==
    /\ pc[k] = "connect" /\ transport[k] = "connecting"
    /\ transport' = [transport EXCEPT ![k] = "closed"]
    /\ pc' = [pc EXCEPT ![k] = "done"]
    /\ isConnecting' = SetState(isConnecting, FALSE)
    /\ lastEv' = [ev |-> "connectRejected", k |-> k, ok |-> FALSE]
    /\ UNCHANGED <<mounted, isActive, isActiveRef, sessionRef, streamRef,
                   scriptProcessorRef, outputCtx, nSessions, stream, node,
                   transcriptions, summaryRequests, audioVars>>
    /\ UNCHANGED <<appVars, parseVars, boardVars, turnVars, summaryVars>>

\* callbacks.onopen of connection k, and the resumption of
\* `sessionRef.current = await sessionPromise` that the open resolves.
OnOpen(k) ==
    /\ transport[k] = "connecting"
    /\ transport' = [transport EXCEPT ![k] = "open"]
    /\ isActiveRef' = TRUE
    /\ isActive' = SetState(isActive, TRUE)
    /\ isConnecting' = SetState(isConnecting, FALSE)
    /\ node' = [node EXCEPT ![k] = "connected"]
    /\ scriptProcessorRef' = k
    /\ sessionRef' = k
    /\ pc' = [pc EXCEPT ![k] = "done"]
    /\ lastEv' = [ev |-> "onopen", k |-> k, ok |-> TRUE]
    /\ UNCHANGED <<mounted, streamRef, outputCtx, nSessions, stream, transcriptions,
                   summaryRequests, audioVars>>
    /\ UNCHANGED <<appVars, parseVars, boardVars, turnVars, summaryVars>>

\* callbacks.onerror of connection k: the connection fails while it is being
\* set up, is open, or is being closed. Its close event follows.
OnError(k) ==
    /\ transport[k] \in {"connecting", "open", "closing"}
    /\ transport' = [transport EXCEPT ![k] = "failed"]
    /\ isActiveRef' = FALSE
    /\ isActive' = SetState(isActive, FALSE)
    /\ isConnecting' = SetState(isConnecting, FALSE)
    /\ lastEv' = [ev |-> "onerror", k |-> k, ok |-> isActiveRef]
    /\ UNCHANGED <<mounted, sessionRef, streamRef, scriptProcessorRef, outputCtx,
                   nSessions, pc, stream, node, transcriptions, summaryRequests,
                   audioVars>>
    /\ UNCHANGED <<appVars, parseVars, boardVars, turnVars, summaryVars>>

\* callbacks.onclose of connection k: the endpoint closed it, or the close
\* event that follows an error or a close() call.
OnClose(k) ==
    /\ transport[k] \in {"connecting", "open", "closing", "failed"}
    /\ transport' = [transport EXCEPT ![k] = "closed"]
    /\ IF isActiveRef
       THEN /\ isActiveRef' = FALSE
            /\ isActive' = SetState(isActive, FALSE)
            /\ isConnecting' = SetState(isConnecting, FALSE)
       ELSE UNCHANGED <<isActiveRef, isActive, isConnecting>>
    /\ lastEv' = [ev |-> "onclose", k |-> k, ok |-> isActiveRef]
    /\ UNCHANGED <<mounted, sessionRef, streamRef, scriptProcessorRef, outputCtx,
                   nSessions, pc, stream, node, transcriptions, summaryRequests,
                   audioVars>>
    /\ UNCHANGED <<appVars, parseVars, boardVars, turnVars, summaryVars>>

\* session.close() on connection t (0: no connection held); a close() that
\* raises leaves the connection as it was.
Closed(t, throws) ==
    IF t # 0 /\ transport[t] \in {"connecting", "open"} /\ "transport" \notin throws
    THEN [transport EXCEPT ![t] = "closing"]
    ELSE transport

StillConnected(n) == node

Disconnected(n) == IF n # 0 THEN [node EXCEPT ![n] = "disconnected"] ELSE node

TracksStopped(t) == IF t # 0 THEN [stream EXCEPT ![t] = "stopped"] ELSE stream

\* compileResources: does nothing without a transcript, otherwise asks the
\* endpoint for the summary.
CompileResources ==
    IF transcriptions # << >> THEN summaryRequests + 1 ELSE summaryRequests

\* compileResources up to its await: the panel is shown, loading, and the
\* request of the session being stopped is in flight.
SummaryRequested ==
    /\ summaryLoading' = (transcriptions # << >> \/ summaryLoading)
    /\ showSummary' = (transcriptions # << >> \/ showSummary)
    /\ summarizing' = IF transcriptions # << >>
                      THEN summarizing \cup {[id |-> summaryRequests + 1,
                                              session |-> nSessions]}
                      ELSE summarizing
    /\ UNCHANGED summary

\* stopSession, the Disconnect button (rendered while isActive). `throws` are
\* the sub-resources whose close call raises: disconnect() and track.stop()
\* are called outside any try block, close() and source.stop() inside one.
StopSession(throws) ==
    /\ mounted /\ isActive
    /\ isActiveRef' = FALSE
    /\ IF scriptProcessorRef # 0 /\ "node" \in throws
       THEN /\ lastEv' = [ev |-> "stop", k |-> 0, ok |-> FALSE]
            /\ UNCHANGED <<node, scriptProcessorRef, transport, sessionRef, stream,
                           streamRef, sources, isActive, isConnecting, summaryRequests>>
            /\ UNCHANGED summaryVars
       ELSE /\ node' = Disconnected(scriptProcessorRef)
            /\ scriptProcessorRef' = 0
            /\ transport' = Closed(sessionRef, throws)
            /\ sessionRef' = 0
            /\ IF streamRef # 0 /\ "track" \in throws
               THEN /\ lastEv' = [ev |-> "stop", k |-> 0, ok |-> FALSE]
                    /\ UNCHANGED <<stream, streamRef, sources, isActive, isConnecting,
                                   summaryRequests>>
                    /\ UNCHANGED summaryVars
               ELSE /\ stream' = TracksStopped(streamRef)
                    /\ streamRef' = 0
                    /\ sources' = {}
                    /\ isActive' = FALSE
                    /\ isConnecting' = FALSE
                    /\ summaryRequests' = CompileResources
                    /\ SummaryRequested
                    /\ lastEv' = [ev |-> "stop", k |-> 0, ok |-> TRUE]
    /\ UNCHANGED <<mounted, outputCtx, nSessions, pc, transcriptions, clock,
                   nextStartTime, decoding, sched, bumped, interruptAt, nChunks>>
    /\ UNCHANGED <<appVars, parseVars, boardVars, turnVars>>

\* The cleanup of the unmount effect: the same closes, the refs are kept.
Unmount(throws) ==
    /\ mounted
    /\ mounted' = FALSE
    /\ isActiveRef' = FALSE
    /\ IF scriptProcessorRef # 0 /\ "node" \in throws
       THEN UNCHANGED <<node, transport, stream, sources>>
       ELSE /\ node' = Disconnected(scriptProcessorRef)
            /\ transport' = Closed(sessionRef, throws)
            /\ IF streamRef # 0 /\ "track" \in throws
               THEN UNCHANGED <<stream, sources>>
               ELSE stream' = TracksStopped(streamRef) /\ sources' = {}
    /\ lastEv' = [ev |-> "unmount", k |-> 0, ok |-> TRUE]
    /\ UNCHANGED <<isActive, isConnecting, sessionRef, streamRef, scriptProcessorRef,
                   outputCtx, nSessions, pc, transcriptions, summaryRequests,
                   clock, nextStartTime, decoding, sched, bumped, interruptAt, nChunks>>
    /\ UNCHANGED <<appVars, parseVars, boardVars, turnVars, summaryVars>>

\* The guard of scriptProcessor.onaudioprocess.
CanSendNoActiveCheck == sessionRef # 0

CanSend == isActiveRef /\ sessionRef # 0

\* scriptProcessor.onaudioprocess of node k: one captured frame.
Frame(k) ==
    /\ node[k] = "connected"
    /\ lastEv' = [ev |-> "frame", k |-> k, ok |-> CanSend]
    /\ UNCHANGED <<mounted, isActive, isConnecting, isActiveRef, sessionRef, streamRef,
                   scriptProcessorRef, outputCtx, nSessions, pc, transport, stream,
                   node, transcriptions, summaryRequests, audioVars>>
    /\ UNCHANGED <<appVars, parseVars, boardVars, turnVars, summaryVars>>

\* What onmessage reads of a server message: the duration of its audio chunk
\* (0: no audio part), its interrupted flag, its turnComplete flag, and the
\* text of its inputTranscription and outputTranscription (a sequence of
\* words, empty when the field is absent).
Msg(audio, interrupted, turn, inText, outText) ==
    [audio |-> audio, interrupted |-> interrupted, turn |-> turn,
     inText |-> inText, outText |-> outText]

AudioMsgs ==
    {Msg(a, i, FALSE, << >>, << >>) : a \in {0} \cup Durations, i \in BOOLEAN}
        \ {Msg(0, FALSE, FALSE, << >>, << >>)}

\* A message that carries the student's words and completes the turn.
TurnMsgs == {Msg(0, FALSE, TRUE, <<"hi">>, << >>)}

\* The words of the transcripts: "draw" is one of the visualKeywords, and
\* "[IMAGE:x]" is a marker the history entry of the model is stripped of.
InWords == {"hi", "draw"}

OutWords == {"ok", "[IMAGE:x]"}

VisualWords == {"draw"}

Markers == {"[IMAGE:x]"}

TextMsgs ==
    {Msg(0, FALSE, FALSE, <<w>>, << >>) : w \in InWords}
        \cup {Msg(0, FALSE, FALSE, << >>, <<w>>) : w \in OutWords}
        \cup {Msg(0, FALSE, TRUE, << >>, << >>), Msg(0, TRUE, FALSE, << >>, << >>)}

\* Turn-complete events handled so far.
turnNo == Len(turnLog)

\* needsVisual of analyzeAndGenerateImage.
NeedsVisual(userText, modelText) ==
    \E i \in 1..Len(userText \o modelText) : (userText \o modelText)[i] \in VisualWords

\* fullOut.replace(/\[BOARD:...\]/g, '').replace(/\[IMAGE:...\]/g, '')
StripMarkers(text) == SelectSeq(text, LAMBDA w : w \notin Markers)

\* .filter(t => t.text.trim() !== '')
NonEmpty(entries) == SelectSeq(entries, LAMBDA t : t.text # << >>)

\* The whiteboard is rendered, so whiteboardRef.current is its handle.
WhiteboardMounted == isActive /\ showWhiteboard

\* The chunks still being decoded were received before the interruption.
MarkStale(q) == [i \in 1..Len(q) |-> [q[i] EXCEPT !.stale = TRUE]]

\* The `interrupted` branch of onmessage, taken while the chunks in q are
\* still being decoded.
Interrupted(q) ==
    /\ sources' = {}
    /\ nextStartTime' = 0
    /\ interruptAt' = clock
    /\ sched' = << >>
    /\ bumped' = FALSE
    /\ decoding' = MarkStale(q)

\* The start time onmessage computes before it decodes the chunk.
StartFloorClockOnly(next, now) == now

StartFloor(next, now) == Max(next, now)

\* The cursor after a chunk of duration dur has been scheduled at `next`.
AdvanceTwice(next, dur) == next + dur + dur

Advance(next, dur) == next + dur

\* callbacks.onmessage of connection k up to `await decodeAudioData`, or to
\* its end when the message has no audio part. Messages are delivered until
\* the connection has closed.
OnMessage(k, m) ==
    /\ transport[k] \in {"open", "closing"}
    /\ m.turn => turnNo < MaxTurns
    /\ Len(recvIn) + Len(recvOut) + Len(m.inText) + Len(m.outText) <= MaxFrags
    /\ m.audio # 0 => nChunks < MaxChunks
    /\ LET fullIn == inputTranscript \o m.inText
           fullOut == outputTranscript \o m.outText
           analysed == m.turn /\ NeedsVisual(fullIn, fullOut)
           cleared == m.interrupted /\ ~(m.audio # 0 /\ outputCtx # 0)
       IN /\ inputTranscript' = IF m.turn THEN << >> ELSE fullIn
          /\ outputTranscript' = IF m.turn \/ cleared THEN << >> ELSE fullOut
          /\ imageGenerated' = IF m.turn THEN analysed ELSE imageGenerated
          /\ analyses' = IF analysed THEN analyses \cup {turnNo + 1} ELSE analyses
          /\ transcriptions' =
                 IF m.turn
                 THEN SetState(transcriptions,
                               NonEmpty(transcriptions \o
                                   << [role |-> "user", text |-> fullIn],
                                      [role |-> "model", text |-> StripMarkers(fullOut)] >>))
                 ELSE transcriptions
          /\ turnLog' = IF m.turn
                        THEN Append(turnLog, [in |-> recvIn \o m.inText,
                                              out |-> recvOut \o m.outText])
                        ELSE turnLog
          /\ recvIn' = IF m.turn THEN << >> ELSE recvIn \o m.inText
          /\ recvOut' = IF m.turn THEN << >> ELSE recvOut \o m.outText
    /\ IF m.audio # 0 /\ outputCtx # 0
       THEN /\ nextStartTime' = StartFloor(nextStartTime, clock)
            /\ bumped' = (bumped \/ nextStartTime' # nextStartTime)
            /\ decoding' = Append(decoding, [id |-> nChunks + 1, dur |-> m.audio,
                                             ctx |-> outputCtx,
                                             interrupted |-> m.interrupted,
                                             stale |-> FALSE])
            /\ nChunks' = nChunks + 1
            /\ UNCHANGED <<sources, sched, interruptAt>>
       ELSE /\ IF m.interrupted
               THEN Interrupted(decoding)
               ELSE UNCHANGED <<sources, nextStartTime, interruptAt, sched, bumped,
                                decoding>>
            /\ UNCHANGED nChunks
    /\ lastEv' = [ev |-> IF m.audio # 0 THEN "chunk"
                         ELSE IF m.interrupted THEN "interrupted"
                         ELSE IF m.turn THEN "turn" ELSE "text",
                  k |-> k, ok |-> TRUE]
    /\ UNCHANGED <<mounted, isActive, isConnecting, isActiveRef, sessionRef, streamRef,
                   scriptProcessorRef, outputCtx, nSessions, pc, transport, stream,
                   node, summaryRequests, clock>>
    /\ UNCHANGED <<showWhiteboard, genLog>>
    /\ UNCHANGED <<appVars, parseVars, boardVars, summaryVars>>

\* The rest of onmessage once decodeAudioData has resolved: the source is
\* started at the cursor, the cursor advances, and the message's own
\* interrupted flag is handled last.
OnDecoded ==
    /\ decoding # << >>
    /\ LET c == Head(decoding)
           src == [id |-> c.id, ctx |-> c.ctx, start |-> nextStartTime, dur |-> c.dur,
                   endsAt |-> Max(nextStartTime, clock) + c.dur, stale |-> c.stale]
       IN /\ IF c.interrupted
             THEN Interrupted(Tail(decoding))
             ELSE /\ sources' = sources \cup {src}
                  /\ nextStartTime' = Advance(nextStartTime, c.dur)
                  /\ sched' = Append(sched, [start |-> nextStartTime, dur |-> c.dur,
                                             late |-> bumped, ctx |-> c.ctx])
                  /\ bumped' = FALSE
                  /\ decoding' = Tail(decoding)
                  /\ UNCHANGED interruptAt
          /\ lastEv' = [ev |-> IF c.interrupted THEN "interrupted" ELSE "scheduled",
                        k |-> c.id, ok |-> ~c.stale]
          /\ outputTranscript' = IF c.interrupted THEN << >> ELSE outputTranscript
    /\ UNCHANGED <<lifeVars, clock, nChunks>>
    /\ UNCHANGED <<inputTranscript, imageGenerated, showWhiteboard, analyses, genLog,
                   turnLog, recvIn, recvOut>>
    /\ UNCHANGED <<appVars, parseVars, boardVars, summaryVars>>

\* The Canvas button.
ToggleWhiteboard ==
    /\ mounted
    /\ showWhiteboard' = ~showWhiteboard
    /\ UNCHANGED <<lifeVars, audioVars, lastEv>>
    /\ UNCHANGED <<inputTranscript, outputTranscript, imageGenerated, analyses, genLog,
                   turnLog, recvIn, recvOut>>
    /\ UNCHANGED <<appVars, parseVars, boardVars, summaryVars>>

\* What the analysis request of analyzeAndGenerateImage resolves to: a reply
\* of "NONE", a description of the image, or a rejection.
AnalysisResults == {"none", "prompt", "rejected"}

\* analyzeAndGenerateImage of turn t from its await on: a description is
\* passed to generateCanvasImage, which issues the generation request when
\* the whiteboard is there; the image it resolves to is the board's
\* RenderImage.
AnalysisResolved(t, result) ==
    /\ t \in analyses
    /\ analyses' = analyses \ {t}
    /\ genLog' = IF result = "prompt" /\ WhiteboardMounted
                 THEN genLog \cup {[turn |-> t, issuedIn |-> turnNo + 1]}
                 ELSE genLog
    /\ lastEv' = [ev |-> "analysis", k |-> t, ok |-> result = "prompt" /\ WhiteboardMounted]
    /\ UNCHANGED <<lifeVars, audioVars>>
    /\ UNCHANGED <<inputTranscript, outputTranscript, imageGenerated, showWhiteboard,
                   turnLog, recvIn, recvOut>>
    /\ UNCHANGED <<appVars, parseVars, boardVars, summaryVars>>

\* The output AudioContext's currentTime advances.
Tick ==
    /\ outputCtx # 0
    /\ clock < MaxClock
    /\ clock' = clock + 1
    /\ UNCHANGED <<lifeVars, nextStartTime, sources, decoding, sched, bumped,
                   interruptAt, nChunks, lastEv>>
    /\ UNCHANGED <<appVars, parseVars, boardVars, turnVars, summaryVars>>

\* The 'ended' listener of a source that has played to its end.
SourceEnded(s) ==
    /\ s \in sources
    /\ s.ctx = outputCtx => clock >= s.endsAt
    /\ sources' = sources \ {s}
    /\ UNCHANGED <<lifeVars, clock, nextStartTime, decoding, sched, bumped,
                   interruptAt, nChunks, lastEv>>
    /\ UNCHANGED <<appVars, parseVars, boardVars, turnVars, summaryVars>>

NextSession ==
    \/ \E fromSummary \in BOOLEAN : StartSession(fromSummary)
    \/ \E k \in Sessions : MicGranted(k)
    \/ \E k \in Sessions : MicDenied(k)
    \/ \E k \in Sessions : ConnectRejected(k)
    \/ \E k \in Sessions : OnOpen(k)
    \/ \E k \in Sessions : OnError(k)
    \/ \E k \in Sessions : OnClose(k)
    \/ \E throws \in SUBSET SubResources : StopSession(throws)
    \/ \E throws \in SUBSET SubResources : Unmount(throws)
    \/ \E k \in Sessions : Frame(k)
    \/ \E k \in Sessions, m \in TurnMsgs : OnMessage(k, m)

\* What the summary request resolves to: a reply with the JSON object asked
\* for, a rejection, a reply whose braces do not hold JSON, or a reply with
\* no braces in it.
SummaryOutcomes == {"data", "rejected", "badjson", "nojson"}

\* compileResources from its await on.
SummaryResolved(r, outcome) ==
    /\ r \in summarizing
    /\ summarizing' = summarizing \ {r}
    /\ summary' = IF outcome = "data"
                  THEN SetState(summary, [kind |-> "data", of |-> r.session])
                  ELSE IF outcome \in {"rejected", "badjson"}
                  THEN SetState(summary, [kind |-> "placeholder", of |-> r.session])
                  ELSE summary
    /\ summaryLoading' = SetState(summaryLoading, FALSE)
    /\ lastEv' = [ev |-> "summary", k |-> r.session, ok |-> outcome = "data"]
    /\ UNCHANGED showSummary
    /\ UNCHANGED <<lifeVars, audioVars, turnVars>>
    /\ UNCHANGED <<appVars, parseVars, boardVars>>

\* onClose of the summary panel.
CloseSummary ==
    /\ mounted /\ showSummary
    /\ showSummary' = FALSE
    /\ UNCHANGED <<summaryLoading, summary, summarizing>>
    /\ UNCHANGED <<lifeVars, audioVars, turnVars, lastEv>>
    /\ UNCHANGED <<appVars, parseVars, boardVars>>

NextSummary ==
    \/ \E fromSummary \in BOOLEAN : StartSession(fromSummary)
    \/ \E k \in Sessions : MicGranted(k)
    \/ \E k \in Sessions : OnOpen(k)
    \/ \E k \in Sessions, m \in TurnMsgs : OnMessage(k, m)
    \/ StopSession({})
    \/ \E id \in 1..MaxSessions, k \in Sessions, outcome \in SummaryOutcomes :
           SummaryResolved([id |-> id, session |-> k], outcome)
    \/ CloseSummary

NextTurns ==
    \/ \E fromSummary \in BOOLEAN : StartSession(fromSummary)
    \/ \E k \in Sessions : MicGranted(k)
    \/ \E k \in Sessions : OnOpen(k)
    \/ ToggleWhiteboard
    \/ \E k \in Sessions, m \in TextMsgs : OnMessage(k, m)
    \/ \E t \in 1..MaxTurns, result \in AnalysisResults : AnalysisResolved(t, result)

NextAudio ==
    \/ \E fromSummary \in BOOLEAN : StartSession(fromSummary)
    \/ \E k \in Sessions : MicGranted(k)
    \/ \E k \in Sessions : OnOpen(k)
    \/ \E k \in Sessions, m \in AudioMsgs \cup TurnMsgs : OnMessage(k, m)
    \/ OnDecoded
    \/ Tick
    \/ \E s \in sources : SourceEnded(s)

(***************************************************************************)
(* LuminaChat: the text chat and its session record. A message list is a   *)
(* prefix of the conversation, so it is modelled by its length.            *)
(***************************************************************************)
InitChat ==
    /\ messages = 1
    /\ isLoading = FALSE
    /\ chatCall = Undefined
    /\ sessionIdRef = 0
    /\ hasSynthesized = FALSE
    /\ synthCalls = 0
    /\ writes = << >>
    /\ records = << >>
    /\ nExchanges = 0
    /\ lastAll = 0

\* sendMessage up to `await generateContent`; the form is disabled while
\* isLoading. The call keeps the messages of the render it was made in.
SendMessage ==
    /\ ~isLoading
    /\ nExchanges < MaxExchanges
    /\ messages' = messages + 1
    /\ isLoading' = TRUE
    /\ chatCall' = messages
    /\ nExchanges' = nExchanges + 1
    /\ UNCHANGED <<sessionIdRef, hasSynthesized, synthCalls, writes, records, lastAll>>
    /\ UNCHANGED <<boardVars, voiceVars, parseVars, classVars>>

\* The first exchange of the record is saved while sessionIdRef is null.
NeedsSave(id) == id = 0

\* sendMessage from the await on, with a classroom and a user: the reply is
\* appended and the conversation is saved or updated; a rejected request
\* appends the error message. finally: setIsLoading(true), and the timer.
Replied(ok) ==
    /\ chatCall # Undefined
    /\ messages' = messages + 1
    /\ chatCall' = Undefined
    /\ isLoading' = TRUE
    /\ LET allMessages == chatCall + 2
       IN  IF ~ok
           THEN UNCHANGED <<writes, hasSynthesized, synthCalls, lastAll>>
           ELSE /\ lastAll' = allMessages
                /\ IF NeedsSave(sessionIdRef)
                   THEN /\ writes' = Append(writes, [op |-> "save", id |-> 0,
                                                     n |-> allMessages])
                        /\ UNCHANGED <<hasSynthesized, synthCalls>>
                   ELSE /\ writes' = Append(writes, [op |-> "update", id |-> sessionIdRef,
                                                     n |-> allMessages])
                        /\ hasSynthesized' = (hasSynthesized \/ allMessages >= 4)
                        /\ synthCalls' = IF allMessages >= 4 /\ ~hasSynthesized
                                         THEN synthCalls + 1 ELSE synthCalls
    /\ UNCHANGED <<sessionIdRef, records, nExchanges>>
    /\ UNCHANGED <<boardVars, voiceVars, parseVars, classVars>>

\* setTimeout(() => setIsLoading(false), 300)
LoadingDone ==
    /\ isLoading /\ chatCall = Undefined
    /\ isLoading' = FALSE
    /\ UNCHANGED <<messages, chatCall, sessionIdRef, hasSynthesized, synthCalls, writes,
                   records, nExchanges, lastAll>>
    /\ UNCHANGED <<boardVars, voiceVars, parseVars, classVars>>

\* The database acknowledges the oldest write: addDoc creates the document
\* and the then-callback of saveLuminaSession stores its id; updateDoc
\* changes the fields it was given.
WriteAcked ==
    /\ writes # << >>
    /\ LET w == Head(writes)
       IN  /\ records' = IF w.op = "save"
                         THEN Append(records, [n |-> w.n, topic |-> FALSE])
                         ELSE IF w.op = "update"
                         THEN [records EXCEPT ![w.id].n = w.n]
                         ELSE [records EXCEPT ![w.id].topic = TRUE]
           /\ sessionIdRef' = IF w.op = "save" THEN Len(records) + 1 ELSE sessionIdRef
    /\ writes' = Tail(writes)
    /\ UNCHANGED <<messages, isLoading, chatCall, hasSynthesized, synthCalls, nExchanges,
                   lastAll>>
    /\ UNCHANGED <<boardVars, voiceVars, parseVars, classVars>>

\* The topic extraction request resolves; a reply with JSON updates the
\* summary and the topics of the record sessionIdRef names by then.
SynthResolved(hasJson) ==
    /\ synthCalls > 0
    /\ synthCalls' = synthCalls - 1
    /\ writes' = IF hasJson
                 THEN Append(writes, [op |-> "topic", id |-> sessionIdRef, n |-> 0])
                 ELSE writes
    /\ UNCHANGED <<messages, isLoading, chatCall, sessionIdRef, hasSynthesized, records,
                   nExchanges, lastAll>>
    /\ UNCHANGED <<boardVars, voiceVars, parseVars, classVars>>

NextChat ==
    \/ SendMessage
    \/ \E ok \in BOOLEAN : Replied(ok)
    \/ LoadingDone
    \/ WriteAcked
    \/ \E hasJson \in BOOLEAN : SynthResolved(hasJson)

(***************************************************************************)
(* AppContent: the classroom data effect.                                  *)
(***************************************************************************)
Classes == 1..MaxClasses

InitApp ==
    /\ selectedClassId = 0
    /\ classroomData = {}
    /\ subs = {}
    /\ loads = {}

\* The effect skips a classroom that already has an entry in classroomData.
Skips(id) == id = 0 \/ id \in classroomData

\* setSelectedClassId(id) (0: back to the dashboard) and the effect on
\* [selectedClassId]: the cleanup of the last run detaches its listeners,
\* then the new run loads the classroom and attaches listeners, unless it
\* returns early.
SelectClass(id) ==
    /\ id # selectedClassId
    /\ selectedClassId' = id
    /\ IF Skips(id)
       THEN /\ subs' = subs \ {selectedClassId}
            /\ UNCHANGED loads
       ELSE /\ subs' = (subs \ {selectedClassId}) \cup {id}
            /\ loads' = loads \cup {id}
    /\ UNCHANGED classroomData
    /\ UNCHANGED <<boardVars, voiceVars, parseVars, chatVars>>

\* loadClassroomData from its await on: in the try and in the catch the
\* classroom gets its entry.
LoadResolved(id) ==
    /\ id \in loads
    /\ loads' = loads \ {id}
    /\ classroomData' = classroomData \cup {id}
    /\ UNCHANGED <<selectedClassId, subs>>
    /\ UNCHANGED <<boardVars, voiceVars, parseVars, chatVars>>

\* A listener of classroom id delivers a snapshot.
Snapshot(id) ==
    /\ id \in subs
    /\ classroomData' = classroomData \cup {id}
    /\ UNCHANGED <<selectedClassId, subs, loads>>
    /\ UNCHANGED <<boardVars, voiceVars, parseVars, chatVars>>

NextApp ==
    \/ \E id \in Classes \cup {0} : SelectClass(id)
    \/ \E id \in Classes : LoadResolved(id)
    \/ \E id \in Classes : Snapshot(id)

\* Playback over a stop and a restart.
NextReplay ==
    \/ \E fromSummary \in BOOLEAN : StartSession(fromSummary)
    \/ \E k \in Sessions : MicGranted(k)
    \/ \E k \in Sessions : OnOpen(k)
    \/ \E k \in Sessions, d \in Durations :
           OnMessage(k, Msg(d, FALSE, FALSE, << >>, << >>))
    \/ OnDecoded
    \/ Tick
    \/ \E s \in sources : SourceEnded(s)
    \/ StopSession({})

Init == InitBoard /\ InitVoice /\ InitParse /\ InitChat /\ InitApp

SpecBoard == Init /\ [][NextBoard]_vars

SpecGrow == Init /\ [][NextGrow]_vars

SpecSession == Init /\ [][NextSession]_vars

SpecAudio == Init /\ [][NextAudio]_vars

SpecTurns == Init /\ [][NextTurns]_vars

SpecParse == Init /\ [][NextParse]_vars

SpecFeed == Init /\ [][NextFeed]_vars

SpecSummary == Init /\ [][NextSummary]_vars

SpecReplay == Init /\ [][NextReplay]_vars

SpecChat == Init /\ [][NextChat]_vars

SpecApp == Init /\ [][NextApp]_vars

\* The summary, with every step that can be taken eventually taken.
SpecSummaryFair == SpecSummary /\ WF_vars(NextSummary)

(***************************************************************************)
(*                              Properties                                 *)
(***************************************************************************)
\* The normalized text of a Write: trimmed, lowercased, truncated to 30
\* characters.
NormalizedText(text) == Substring(ToLowerCase(Trim(text)), 30)

TextPaints == {p \in paintLog : p.k = "text"}

\* C1: within one whiteboard session a Write whose normalized text equals that
\* of an earlier Write is not rendered and does not increment the item
\* counter; each distinct normalized text is rendered at most once and the
\* counter goes up exactly once for it.
C1_WriteOncePerText ==
    /\ [](\A p, q \in TextPaints :
             NormalizedText(p.text) = NormalizedText(q.text) => p = q)
    /\ [][(nCmds' = nCmds + 1 /\ lastOp'.op = "write") =>
             IF \E p \in TextPaints :
                    NormalizedText(p.text) = NormalizedText(lastOp'.text)
             THEN itemCount' = itemCount /\ paintLog' = paintLog /\ surface' = surface
             ELSE /\ itemCount' = itemCount + 1
                  /\ \E p \in paintLog' \ paintLog :
                         /\ p.k = "text" /\ p.text = lastOp'.text
                         /\ paintLog' = paintLog \cup {p}]_vars

\* C1 witness: a second Write, of a text that differs from the first one's but
\* normalizes to the same, has been skipped: one text painted, counter at 1.
C1_Witness ==
    /\ lastOp.op = "write"
    /\ nCmds = 2
    /\ itemCount = 1
    /\ \E p \in TextPaints :
           /\ p.text # lastOp.text
           /\ NormalizedText(p.text) = NormalizedText(lastOp.text)

\* C2: growth preserves all previously drawn content: once all pending
\* restores have completed (and none has failed), every item that was on the
\* surface before a grow is still on the surface.
C2_GrowthPreservesContent ==
    (restores = {} /\ ~restoreFailed) =>
        (UNION {g.snap : g \in growLog}) \subseteq surface

\* C3: growth and drawing are mutually exclusive: nothing is painted between
\* the moment a grow resizes the surface and the moment its restore completes.
C3_NoPaintDuringGrowth == \A p \in paintLog : ~p.growing

\* The sum of the durations of the first n scheduled chunks.
RECURSIVE SumDur(_)
SumDur(n) == IF n = 0 THEN 0 ELSE SumDur(n - 1) + sched[n].dur

C5_StartIsSumOfDurations ==
    interruptAt = Undefined =>
        \A n \in 1..Len(sched) : sched[n].start = sched[1].start + SumDur(n - 1)

\* C5 as the code has it: of the chunks scheduled with no interruption
\* between them, the n-th starts no earlier than the first one's start plus
\* the sum of the durations before it, and exactly then unless a chunk message
\* since the first one arrived after the context clock had passed
\* nextStartTime (the cursor then jumps to the clock).
C5_StartIsSumUnlessLate ==
    \A n \in 1..Len(sched) :
        /\ sched[n].start >= sched[1].start + SumDur(n - 1)
        /\ (\A i \in 2..n : ~sched[i].late) =>
               sched[n].start = sched[1].start + SumDur(n - 1)

\* C5: three chunks were scheduled and no interruption was ever handled, the
\* second after an underrun, the third back to back.
C5_Witness ==
    /\ interruptAt = Undefined
    /\ Len(sched) = 3
    /\ sched[2].late /\ sched[2].start > sched[1].start + sched[1].dur
    /\ ~sched[3].late /\ sched[3].start = sched[2].start + sched[2].dur

\* C6 as stated: nextStartTime never decreases, whatever the event.
C6_NextStartTimeNonDecreasing == [][nextStartTime' >= nextStartTime]_vars

\* C6 as the code has it: nextStartTime decreases only when an interruption
\* resets it to 0; audio chunks and turn-complete never decrease it, and
\* every scheduled chunk starts at it and advances it by exactly the chunk's
\* duration.
C6_NextStartTimeResetOnlyByInterrupt ==
    [][ /\ nextStartTime' < nextStartTime =>
               lastEv'.ev = "interrupted" /\ nextStartTime' = 0
        /\ Len(sched') = Len(sched) + 1 =>
               /\ sched'[Len(sched')].start = nextStartTime
               /\ nextStartTime' = nextStartTime + sched'[Len(sched')].dur ]_vars

\* C6: an interruption at a clock time after 0 has reset the cursor, and a
\* chunk scheduled since has advanced it by its duration.
C6_Witness ==
    /\ lastEv.ev = "scheduled"
    /\ interruptAt > 0
    /\ Len(sched) = 1
    /\ nextStartTime = sched[1].start + sched[1].dur

\* C7: Active is entered only from Connecting and only by the open callback
\* of a connecting transport, and the session is never Connecting and Active
\* at once.
C7_ActiveOnlyFromConnecting ==
    /\ [](~(isConnecting /\ isActive))
    /\ [][ (isActive' /\ ~isActive) =>
               /\ isConnecting
               /\ \E k \in Sessions : transport[k] = "connecting" /\ transport'[k] = "open" ]_vars

\* C8: when the transport of the Active session reports an error or closes,
\* the session becomes Idle and is torn down as by stopSession: capture node
\* disconnected, handles released, microphone stopped, playback stopped and
\* the summary requested.
C8_ErrorTearsDownLikeStop ==
    [][ \A k \in Sessions :
            ( /\ mounted /\ isActive /\ isActiveRef /\ sessionRef = k
              /\ transport[k] = "open" /\ transport'[k] \in {"failed", "closed"} ) =>
            ( /\ ~isActive' /\ ~isConnecting'
              /\ node'[k] # "connected"
              /\ stream'[k] # "live"
              /\ sessionRef' = 0 /\ scriptProcessorRef' = 0 /\ streamRef' = 0
              /\ sources' = {}
              /\ summaryRequests' = CompileResources ) ]_vars

\* C9: stopSession never throws and leaves the session Idle with every
\* handle released, whichever sub-resource raised while being closed.
C9_StopAlwaysCompletes ==
    lastEv.ev = "stop" =>
        /\ lastEv.ok
        /\ ~isActive /\ ~isConnecting /\ ~isActiveRef
        /\ scriptProcessorRef = 0 /\ sessionRef = 0 /\ streamRef = 0
        /\ sources = {}

\* C10: a captured frame is handed to the transport only while isActiveRef is
\* set and a session handle is held; stop, error and close clear
\* isActiveRef, so every later frame is dropped.
C10_FramesOnlyWhileActive ==
    /\ [](lastEv.ev \in {"stop", "onerror", "onclose"} => ~isActiveRef)
    /\ [][ (lastEv' # lastEv /\ lastEv'.ev = "frame") =>
               (lastEv'.ok <=> (isActiveRef /\ sessionRef # 0)) ]_vars

\* C10: after an error the capture node still runs and the session handle is
\* still held, and the frame it delivered was dropped.
C10_Witness ==
    /\ lastEv.ev = "frame" /\ ~lastEv.ok
    /\ node[lastEv.k] = "connected"
    /\ sessionRef # 0 /\ transport[sessionRef] = "failed"

\* C11: stopSession disconnects the capture node, then closes the transport,
\* then stops the microphone tracks: a later step is reached only when the
\* earlier ones are done, the node of a transport whose close has begun is
\* disconnected, and a frame is handed only to an open transport.
C11_StopOrder ==
    /\ [](\A k \in Sessions : transport[k] = "closing" => node[k] = "disconnected")
    /\ [][ (lastEv' # lastEv /\ lastEv'.ev = "stop") =>
               /\ (streamRef # 0 /\ streamRef' = 0) =>
                      (sessionRef' = 0 /\ scriptProcessorRef' = 0)
               /\ (sessionRef # 0 /\ sessionRef' = 0) => scriptProcessorRef' = 0 ]_vars
    /\ [][ (lastEv' # lastEv /\ lastEv'.ev = "frame" /\ lastEv'.ok) =>
               transport[sessionRef] = "open" ]_vars

\* C11: a stop has run all three steps on an open session; the capture node
\* still delivers nothing to the closing transport.
C11_Witness ==
    /\ lastEv.ev = "stop" /\ lastEv.ok
    /\ \E k \in Sessions :
           /\ transport[k] = "closing"
           /\ node[k] = "disconnected"
           /\ stream[k] = "stopped"
    /\ sessionRef = 0 /\ scriptProcessorRef = 0 /\ streamRef = 0

ImagePaints == {p \in paintLog : p.k = "image"}

\* C12 as stated: a grow started by an Image command asks for the minimal
\* sufficient height, the extent the image requires.
C12_GrowIsMinimal == \A g \in growLog : g.to = g.need

\* C12 as the code has it: an Image command whose required extent (image
\* bottom plus 100) exceeds the surface height starts exactly one grow, to
\* the required extent plus 300, and is drawn in the step in which that
\* grow's restore image loads or fails, never before; an image that fits is
\* drawn without a grow.
C12_OneGrowThenDraw ==
    /\ [](/\ \A g \in growLog : g.need > g.from /\ g.to = g.need + Px(300)
          /\ \A i \in images : i.st = "expanding" => \E r \in restores : r.id = i.r)
    /\ [][ /\ Cardinality(growLog') <= Cardinality(growLog) + 1
           /\ growLog' # growLog =>
                  /\ ImagePaints' = ImagePaints
                  /\ \E i \in images, j \in images' :
                         /\ i.st = "loading" /\ j.st = "expanding" /\ j.id = i.id
                         /\ \E g \in growLog' \ growLog : g.id = j.r
           /\ \A i \in images :
                  (i.st = "expanding" /\ i \notin images') =>
                      /\ \E r \in restores : r.id = i.r /\ r \notin restores'
                      /\ Cardinality(ImagePaints') = Cardinality(ImagePaints) + 1 ]_vars

\* C12: an image that did not fit has been drawn on the grown surface after
\* the restore of its grow loaded.
C12_Witness ==
    /\ restores = {} /\ ~restoreFailed
    /\ \E g \in growLog, p \in ImagePaints :
           /\ p.h = g.to
           /\ p.y + Px(100) <= g.need
           /\ p.n \in surface

RECURSIVE MaxOf(_)
MaxOf(S) == IF S = {} THEN 0
            ELSE LET x == CHOOSE y \in S : TRUE IN Max(x, MaxOf(S \ {x}))

\* C13: after any sequence of expandCanvas(h) calls the surface height is the
\* maximum of the initial height and every h asked for; a call with h not
\* above the current height changes nothing; the height never decreases.
C13_HeightIsMaxRequested ==
    /\ [](canvasHeight = MaxOf({MIN_CANVAS_HEIGHT} \cup {g.to : g \in growLog}))
    /\ [][ /\ canvasHeight' >= canvasHeight
           /\ \A g \in growLog' \ growLog :
                  g.to <= canvasHeight =>
                      UNCHANGED <<canvasHeight, surface, restores, isExpanding,
                                  paintLog, currentY, itemCount, renderedHashes>> ]_vars

\* C13: the surface was grown, and a later call asking for less than the
\* current height, but more than the initial one, has left it alone.
C13_Witness ==
    /\ lastOp.op = "grow"
    /\ \E g, k \in growLog :
           /\ g.id < k.id
           /\ g.to = canvasHeight /\ g.from < g.to
           /\ k.to < canvasHeight /\ k.to > MIN_CANVAS_HEIGHT /\ k.from = canvasHeight

\* C14: a first-time Write is placed at the left margin (40) at the cursor
\* held before the call, whatever x and y it carries; the cursor advances by
\* fontSize * 1.4 + 30, fontSize defaulting to 24; the item count grows by
\* one. The first Write on a fresh surface is placed at 80 and makes the
\* item count 1.
C14_FirstWritePlacement ==
    [][ ( /\ nCmds' = nCmds + 1 /\ lastOp'.op = "write"
          /\ ~\E q \in TextPaints :
                 NormalizedText(q.text) = NormalizedText(lastOp'.text) ) =>
        LET size == IF lastOp'.size = Undefined \/ lastOp'.size = 0
                    THEN 24 ELSE lastOp'.size
        IN  /\ \E p \in paintLog' \ paintLog :
                   /\ p.k = "text" /\ p.text = lastOp'.text
                   /\ p.x = Px(40) /\ p.y = currentY
                   /\ nCmds = 0 => p.y = Px(80)
            /\ currentY' * 10 = currentY * 10 + size * 14 * 5 + Px(30) * 10
            /\ itemCount' = itemCount + 1
            /\ nCmds = 0 => itemCount' = 1 ]_vars

\* C14: the first Write on a fresh surface, of default size, has been placed
\* at (40, 80) and the cursor stands at 80 + 24 * 1.4 + 30.
C14_Witness ==
    /\ nCmds = 1 /\ lastOp.op = "write" /\ lastOp.size = Undefined
    /\ itemCount = 1
    /\ \E p \in TextPaints : p.x = Px(40) /\ p.y = Px(80)
    /\ currentY = Px(80) + 168 + Px(30)

\* C15: in every turn (the interval that a turn-complete event ends) at most
\* one image-generation request is issued to the endpoint, whichever turn's
\* analysis it comes from.
C15_OneGenerationPerTurn ==
    \A g, h \in genLog : g.issuedIn = h.issuedIn => g = h

\* C16: the step that handles a turn-complete event appends to the history
\* the user entry and then the model entry made of every fragment received
\* during that turn (the model's without its markers, empty entries left
\* out), and leaves both accumulators empty.
C16_FragmentsInEntry ==
    [][ turnLog' # turnLog =>
            LET t == turnLog'[Len(turnLog')]
            IN /\ transcriptions' =
                      transcriptions \o
                          NonEmpty(<< [role |-> "user", text |-> t.in],
                                      [role |-> "model", text |-> StripMarkers(t.out)] >>)
               /\ inputTranscript' = << >>
               /\ outputTranscript' = << >> ]_vars

\* C17: when the summary request fails (it rejects, or its reply does not
\* parse into topics and resources) the summary becomes the placeholder of
\* the session that was stopped and the loading flag is cleared.
C17_FailureGivesPlaceholder ==
    [][ (lastEv' # lastEv /\ lastEv'.ev = "summary" /\ ~lastEv'.ok) =>
            /\ summary' = [kind |-> "placeholder", of |-> lastEv'.k]
            /\ summaryLoading' = FALSE ]_vars

\* The directives of a text that are well formed and carry an action, in
\* source order.
RECURSIVE WellFormedFrom(_, _)
WellFormedFrom(text, i) ==
    IF i + 2 > Len(text) THEN << >>
    ELSE IF text[i] = Open /\ text[i + 1] \in ActionBodies /\ text[i + 2] = Close
         THEN <<text[i + 1]>> \o WellFormedFrom(text, i + 3)
         ELSE WellFormedFrom(text, i + 1)

\* C18: the parser returns exactly the well-formed directives of the chunk
\* that carry an action, in source order, whatever malformed directive
\* stands before them.
C18_ParserReturnsWellFormed ==
    commands = WellFormedFrom(chunk, 1)

\* C19: a text whose directive is the one that was fed last leaves the
\* rendered items, the item count and the cursor as they were after the
\* first feed.
C19_FeedTwiceSameAsOnce ==
    [][ (nCmds' = nCmds + 1 /\ lastOp' = lastOp) =>
            /\ paintLog' = paintLog
            /\ itemCount' = itemCount
            /\ currentY' = currentY ]_vars

\* C20: the step in which an image that is being decoded is given up (it
\* leaves the pending images and nothing is painted) changes neither the
\* cursor, the surface height, the item count nor the rendered hashes, and
\* starts no growth.
C20_FailedDecodeLeavesSurface ==
    [][ (\E i \in images : i.st = "loading" /\ images' = images \ {i}
                              /\ paintLog' = paintLog) =>
            /\ currentY' = currentY
            /\ canvasHeight' = canvasHeight
            /\ itemCount' = itemCount
            /\ renderedHashes' = renderedHashes
            /\ surface' = surface
            /\ restores' = restores
            /\ isExpanding' = isExpanding ]_vars

\* An image command was the last one, after other items were rendered, and
\* its image is neither pending nor painted: the decode has failed.
C20_Witness ==
    /\ lastOp.op = "image"
    /\ images = {}
    /\ ImagePaints = {}
    /\ itemCount >= 1
    /\ currentY > InitialY

\* C21: the first chunk a session receives and schedules starts at a time
\* the clock of that session's output context has reached, not at a later
\* time left over from the session before.
C21_FirstChunkAtSessionClock ==
    (sched # << >> /\ sched[1].ctx = outputCtx) => sched[1].start <= clock

\* C22: once a voice session with a transcript has been stopped, a record of
\* it is eventually among the documents of the database.
C22_StoppedSessionIsStored ==
    (lastEv.ev = "stop" /\ lastEv.ok /\ transcriptions # << >>) ~> (records # << >>)

\* C23: once every write has been acknowledged and no request is in flight,
\* the record the chat holds contains all the messages of the conversation
\* up to its last completed exchange.
C23_RecordHasAllMessages ==
    (lastAll > 0 /\ writes = << >> /\ chatCall = Undefined) =>
        /\ sessionIdRef # 0
        /\ records[sessionIdRef].n = lastAll

\* C29: one chat creates at most one record.
C29_AtMostOneRecord ==
    Len(records) <= 1

\* C30: the listeners of the selected classroom are attached.
C30_SelectedClassIsSubscribed ==
    selectedClassId # 0 => selectedClassId \in subs

\* C24: scheduled playback buffers never overlap. For two chunks received one
\* after the other and both scheduled, with no interruption between them, the
\* later one begins to play no earlier than the earlier one stops playing,
\* also when the clock has advanced while a chunk was being decoded. A source
\* begins to play at the later of the time it was started for and the clock
\* at the call, dur before its endsAt; stale marks a chunk that was being
\* decoded when an interruption arrived.
C24_BuffersNeverOverlap ==
    \A a \in sources, b \in sources :
        (/\ a.ctx = outputCtx /\ b.ctx = outputCtx
         /\ ~a.stale /\ ~b.stale
         /\ b.id = a.id + 1) =>
            b.endsAt - b.dur >= a.endsAt

\* C25: a Write that is skipped as a duplicate leaves the surface state
\* unchanged: the cursor, the item count and the set of rendered hashes are
\* the same after the skipped Write as before it.
C25_SkippedWriteChangesNothing ==
    [][(/\ nCmds' = nCmds + 1
        /\ lastOp'.op = "write"
        /\ TextHash(lastOp'.text) \in renderedHashes)
       => /\ currentY' = currentY
          /\ itemCount' = itemCount
          /\ renderedHashes' = renderedHashes]_vars

\* C26: every item rendered by a Write or a Clear divider lies within the
\* surface: at the moment the text or the divider is painted, its vertical
\* position is less than the surface height of that moment.
C26_PaintedWithinSurface ==
    \A p \in paintLog : p.k \in {"text", "divider"} => Visible(p.y, p.h)

\* C27: a capture node created for an earlier session never sends frames into
\* a later session's transport: a frame that is sent (the guard of
\* onaudioprocess passed) comes from the node of the session whose transport
\* sessionRef holds, which is where sendRealtimeInput sends it.
C27_FrameGoesToOwnTransport ==
    (lastEv.ev = "frame" /\ lastEv.ok) => lastEv.k = sessionRef

\* C28: if the component is unmounted while the session is Connecting, the
\* session never becomes Active afterwards and no capture frame is ever
\* sent. A component that was unmounted while Connecting keeps isConnecting,
\* since state updates after the unmount are dropped.
C28_NoFrameAfterUnmountWhileConnecting ==
    (~mounted /\ isConnecting) =>
        /\ ~isActiveRef
        /\ lastEv.ev = "frame" => ~lastEv.ok

====
